---------------------------- MODULE Spec2Model ----------------------------
(***************************************************************************)
(* A model of aws/code/rapids_cloud_ml.py: the RapidsCloudML job wrapper   *)
(* (job-name parsing, hyper-parameter parsing, data-input resolution, the  *)
(* dask cluster life cycle, training dispatch and scoring).                *)
(*                                                                         *)
(* Python strings that the code inspects (substring tests, split, lower,   *)
(* int) are sequences of one-character strings, so that `'GPU' in s`,      *)
(* s.split('-') and int(s) are computed as Python computes them.  Python   *)
(* None is the empty sequence << >> and an optional value v is <<v>>.      *)
(***************************************************************************)
EXTENDS Integers, Sequences, FiniteSets, TLC

VARIABLES
    environ,   \* os.environ, restricted to the key SM_TRAINING_ENV (JSON already decoded)
    fs,        \* the file system: the set of existing file paths
    hw,        \* the machine: [gpus |-> getDeviceCount(), cpus |-> os.cpu_count()]
    ctor,      \* the arguments given to RapidsCloudML(...)
    self,      \* the RapidsCloudML object: attribute name -> value
    dask,      \* the dask runtime: open clusters, open clients, next handle
    pc,        \* position of the (sequential) caller
    last       \* outcome of the last call: what it returned, raised and printed

vars == << environ, fs, hw, ctor, self, dask, pc, last >>

----------------------------------------------------------------------------
(* Bounds of the model *)

MaxFoldLen == 2     \* characters before 'cv' in the fold field of a job name
MaxDataFiles == 3   \* parquet files that may exist in the training directory
MaxArgs == 1        \* command-line options in input_args
MaxDevices == 2     \* GPUs, and CPUs, of the machine
MaxWorkerLimit == 2 \* the worker_limit given to the constructor
MaxClusters == 2    \* clusters created during the life of one object
MaxFolds == 2       \* predict calls on one object
MaxJobFiles == 2    \* parquet files in the training directory of a job

----------------------------------------------------------------------------
(* Python values *)

None == << >>
Some(v) == << v >>

Returned(v) == [status |-> "returned", ret |-> v]
Raised(e, line) == [status |-> "raised", exc |-> e, line |-> line]

HasAttr(obj, name) == name \in DOMAIN obj
SetAttr(obj, name, v) ==
    [a \in (DOMAIN obj) \cup {name} |-> IF a = name THEN v ELSE obj[a]]

Min(a, b) == IF a <= b THEN a ELSE b

----------------------------------------------------------------------------
(* Python str operations *)

\* sub in s
Contains(sub, s) ==
    \E i \in 0 .. (Len(s) - Len(sub)) : SubSeq(s, i + 1, i + Len(sub)) = sub

\* the index of the first occurrence of sub in s, 0 when there is none
Find(sub, s) ==
    IF Contains(sub, s)
    THEN CHOOSE i \in 1 .. (Len(s) - Len(sub) + 1) :
            /\ SubSeq(s, i, i + Len(sub) - 1) = sub
            /\ \A j \in 1 .. (i - 1) : SubSeq(s, j, j + Len(sub) - 1) # sub
    ELSE 0

\* s.split(sep): the list of the pieces of s between the occurrences of sep
RECURSIVE Split(_, _)
Split(s, sep) ==
    LET i == Find(sep, s)
    IN  IF i = 0 THEN << s >>
        ELSE << SubSeq(s, 1, i - 1) >> \o Split(SubSeq(s, i + Len(sep), Len(s)), sep)

LowerLetters == <<"a","b","c","d","e","f","g","h","i","j","k","l","m",
                  "n","o","p","q","r","s","t","u","v","w","x","y","z">>
UpperLetters == <<"A","B","C","D","E","F","G","H","I","J","K","L","M",
                  "N","O","P","Q","R","S","T","U","V","W","X","Y","Z">>

LowerChar(c) ==
    IF \E i \in 1 .. Len(UpperLetters) : UpperLetters[i] = c
    THEN LowerLetters[CHOOSE i \in 1 .. Len(UpperLetters) : UpperLetters[i] = c]
    ELSE c

\* s.lower()
Lower(s) == [i \in 1 .. Len(s) |-> LowerChar(s[i])]

Digits == <<"0","1","2","3","4","5","6","7","8","9">>
IsDigit(c) == \E i \in 1 .. Len(Digits) : Digits[i] = c
DigitValue(c) == (CHOOSE i \in 1 .. Len(Digits) : Digits[i] = c) - 1

RECURSIVE DigitsValue(_)
DigitsValue(s) ==
    IF s = << >> THEN 0
    ELSE 10 * DigitsValue(SubSeq(s, 1, Len(s) - 1)) + DigitValue(s[Len(s)])

\* int(s) for a str s over letters, digits and '+': the value, or ValueError
\* (None) when s is not an optionally signed, non-empty run of digits
ParseInt(s) ==
    LET body == IF s # << >> /\ s[1] = "+" THEN Tail(s) ELSE s
    IN  IF body # << >> /\ \A i \in 1 .. Len(body) : IsDigit(body[i])
        THEN Some(DigitsValue(body))
        ELSE None

\* ''.join of a list of strings with separator sep
RECURSIVE Join(_, _)
Join(parts, sep) ==
    IF parts = << >> THEN << >>
    ELSE IF Len(parts) = 1 THEN parts[1]
    ELSE parts[1] \o sep \o Join(Tail(parts), sep)

----------------------------------------------------------------------------
(* String literals of the source *)

Str_XGBoost      == <<"X","G","B","o","o","s","t">>
Str_RandomForest == <<"R","a","n","d","o","m","F","o","r","e","s","t">>
Str_single_GPU   == <<"s","i","n","g","l","e","-","G","P","U">>
Str_single_CPU   == <<"s","i","n","g","l","e","-","C","P","U">>
Str_multi_GPU    == <<"m","u","l","t","i","-","G","P","U">>
Str_multi_CPU    == <<"m","u","l","t","i","-","C","P","U">>
Str_multi        == <<"m","u","l","t","i">>
Str_single       == <<"s","i","n","g","l","e">>
Str_GPU          == <<"G","P","U">>
Str_CPU          == <<"C","P","U">>
Str_mgpu         == <<"m","g","p","u">>
Str_mcpu         == <<"m","c","p","u">>
Str_scpu         == <<"s","c","p","u">>
Str_sgpu         == <<"s","g","p","u">>
Str_rf           == <<"r","f">>
Str_xgb          == <<"x","g","b">>
Str_cv           == <<"c","v">>
Str_dash         == <<"-">>
Str_star         == <<"*">>

\* module defaults
default_model_type   == <<"X","G","B","o","o","s","t">>
default_compute_type == <<"s","i","g","l","e","-","G","P","U">>
default_cv_folds     == 1

ModelTypes   == { Str_RandomForest, Str_XGBoost }
ComputeTypes == { Str_single_GPU, Str_multi_GPU, Str_single_CPU, Str_multi_CPU }

----------------------------------------------------------------------------
(* parse_job_name *)

HasTrainingEnv(env) == "SM_TRAINING_ENV" \in DOMAIN env

\* DecodeCompute with the results of the two single-mode branches exchanged
DecodeCompute_swapped(compute_selection, compute_type) ==
    IF Contains(Str_mgpu, compute_selection) THEN Str_multi_GPU
    ELSE IF Contains(Str_mcpu, compute_selection) THEN Str_multi_CPU
    ELSE IF Contains(Str_scpu, compute_selection) THEN Str_single_GPU
    ELSE IF Contains(Str_sgpu, compute_selection) THEN Str_single_CPU
    ELSE compute_type

\* the compute branch of the try block
DecodeCompute(compute_selection, compute_type) ==
    IF Contains(Str_mgpu, compute_selection) THEN Str_multi_GPU
    ELSE IF Contains(Str_mcpu, compute_selection) THEN Str_multi_CPU
    ELSE IF Contains(Str_scpu, compute_selection) THEN Str_single_CPU
    ELSE IF Contains(Str_sgpu, compute_selection) THEN Str_single_GPU
    ELSE compute_type

\* the model branch of the try block
DecodeModel(model_selection, model_type) ==
    IF Contains(Str_rf, model_selection) THEN Str_RandomForest
    ELSE IF Contains(Str_xgb, model_selection) THEN Str_XGBoost
    ELSE model_type

\* The try block: the three locals as they stand when the block ends, or when
\* a statement of it raises (every exception is caught and printed).
TryParse(env, locals) ==
    IF ~HasTrainingEnv(env) THEN locals
    ELSE LET env_params == env["SM_TRAINING_ENV"]
         IN  IF "job_name" \notin DOMAIN env_params THEN locals        \* KeyError
             ELSE
             LET job_name == env_params["job_name"]
                 fields == Split(job_name, Str_dash)
             IN  IF Len(fields) < 2 THEN locals                        \* IndexError
                 ELSE
                 LET l1 == [locals EXCEPT !.compute_type =
                               DecodeCompute(Lower(fields[2]), locals.compute_type)]
                 IN  IF Len(fields) < 3 THEN l1                        \* IndexError
                     ELSE
                     LET l2 == [l1 EXCEPT !.model_type =
                                   DecodeModel(Lower(fields[3]), l1.model_type)]
                     IN  IF Len(fields) < 4 THEN l2                    \* IndexError
                         ELSE
                         LET n == ParseInt(Split(fields[4], Str_cv)[1])
                         IN  IF n = None THEN l2                       \* ValueError
                             ELSE [l2 EXCEPT !.cv_folds = n[1]]

parse_job_name(env) ==
    LET locals == TryParse(env, [model_type   |-> default_model_type,
                                 compute_type |-> default_compute_type,
                                 cv_folds     |-> default_cv_folds])
    IN  IF locals.model_type \notin ModelTypes THEN Raised("AssertionError", 450)
        ELSE IF locals.compute_type \notin ComputeTypes THEN Raised("AssertionError", 451)
        ELSE IF ~(locals.cv_folds >= 1) THEN Raised("AssertionError", 452)
        ELSE Returned(<< locals.model_type, locals.compute_type, locals.cv_folds >>)

----------------------------------------------------------------------------
(* Job names given to parse_job_name *)

NoEnviron == << >>
EnvWith(job_name) == [SM_TRAINING_ENV |-> [job_name |-> job_name]]
EnvWithoutJobName == [SM_TRAINING_ENV |-> [hosts |-> <<"algo-1">>]]

RECURSIVE SeqsUpTo(_, _)
SeqsUpTo(S, n) ==
    IF n = 0 THEN { << >> }
    ELSE LET shorter == SeqsUpTo(S, n - 1)
         IN  shorter \cup { Append(s, c) : s \in shorter, c \in S }

PrefixFields  == { <<"a","i","r">> }
ComputeFields == { Str_mgpu, Str_mcpu, Str_scpu, Str_sgpu,
                   <<"M","G","P","U">>, <<"x","s","c","p","u","1">>,
                   <<"g","p","u">>, <<"m","c","p","u","m","g","p","u">> }
ModelFields   == { Str_rf, Str_xgb, <<"X","G","B">>, <<"r","f","2">>,
                   <<"l","g","b","m">>, <<"x","g","b","r","f">> }
FoldChars     == { "0", "1", "3", "x" }
FoldFields    == LET ns == SeqsUpTo(FoldChars, MaxFoldLen)
                 IN  { n \o Str_cv : n \in ns } \cup ns
TailFields    == { <<"7">> }

JobFieldLists ==
    LET full == { << p, c, m, f >> : p \in PrefixFields, c \in ComputeFields,
                                     m \in ModelFields, f \in FoldFields }
    IN  full
        \cup { Append(l, t) : l \in full, t \in TailFields }
        \cup { SubSeq(l, 1, 3) : l \in full }
        \cup { SubSeq(l, 1, 2) : l \in full }
        \cup { SubSeq(l, 1, 1) : l \in full }

JobNames == { Join(l, Str_dash) : l \in JobFieldLists }

JobEnvirons == { NoEnviron, EnvWithoutJobName } \cup { EnvWith(j) : j \in JobNames }

----------------------------------------------------------------------------
(* Values of the variables a specification does not use *)

NoFiles  == { }
NoHw     == [gpus |-> 1, cpus |-> 1]
NoCtor   == << >>
NoSelf   == << >>
NoDask   == [clusters |-> { }, clients |-> { }, next |-> 1]
NoLast   == [op |-> "none"]

----------------------------------------------------------------------------
(* SpecJob: parse_job_name applied to an environment *)

JobInit ==
    /\ environ \in JobEnvirons
    /\ fs = NoFiles /\ hw = NoHw /\ ctor = NoCtor /\ self = NoSelf /\ dask = NoDask
    /\ pc = "start"
    /\ last = NoLast

CallParseJobName ==
    /\ pc = "start"
    /\ last' = [op |-> "parse_job_name", out |-> parse_job_name(environ)]
    /\ pc' = "done"
    /\ UNCHANGED << environ, fs, hw, ctor, self, dask >>

JobNext == CallParseJobName

SpecJob == JobInit /\ [][JobNext]_vars

----------------------------------------------------------------------------
(* glob.glob *)

\* fnmatch of one path against a pattern whose only wildcard is '*': a '*'
\* matches any run of characters other than '/', and at the start of a path
\* component it does not match a name that begins with '.'
RECURSIVE GlobMatch(_, _, _)
GlobMatch(pat, path, atStart) ==
    IF pat = << >> THEN path = << >>
    ELSE IF pat[1] = "*"
    THEN /\ ~(atStart /\ path # << >> /\ path[1] = ".")
         /\ \E k \in 0 .. Len(path) :
               /\ \A i \in 1 .. k : path[i] # "/"
               /\ GlobMatch(Tail(pat), SubSeq(path, k + 1, Len(path)), FALSE)
    ELSE /\ path # << >>
         /\ path[1] = pat[1]
         /\ GlobMatch(Tail(pat), Tail(path), pat[1] = "/")

\* what exists in a file system: its files and the directories that hold them
Ancestors(f) == { SubSeq(f, 1, i - 1) : i \in { j \in 2 .. Len(f) : f[j] = "/" } }

Entries(files) == files \cup UNION { Ancestors(f) : f \in files }

GlobSet(files, pat) == { e \in Entries(files) : GlobMatch(pat, e, TRUE) }

\* glob.glob returns the matches as a list in arbitrary order
Listings(S) ==
    { l \in [1 .. Cardinality(S) -> S] : \A i, j \in DOMAIN l : i # j => l[i] # l[j] }

Glob(files, pat) == Listings(GlobSet(files, pat))

----------------------------------------------------------------------------
(* configure_data_inputs *)

default_directory_structure ==
    [train_data  |-> <<"/","o","p","t","/","m","l","/","i","n","p","u","t","/",
                       "d","a","t","a","/","t","r","a","i","n","i","n","g","/">>,
     model_store |-> <<"/","o","p","t","/","m","l","/","m","o","d","e","l">>]

default_dataset_path == <<"*",".","p","a","r","q","u","e","t">>

\* configure_data_inputs that tests for 'single' where the code tests for 'single-CPU'
configure_data_inputs_anysingle(obj, listing) ==
    LET target_files == obj["dataset_structure"].train_data \o obj["dataset_path"]
        n_datafiles == Len(listing)
    IN  IF ~(n_datafiles > 0) THEN Raised("AssertionError", 154)
        ELSE IF Contains(Str_single, obj["compute_type"])
        THEN Returned(<< Split(target_files, Str_star)[1], n_datafiles >>)
        ELSE IF Contains(Str_single_GPU, obj["compute_type"])
        THEN Returned(<< listing, n_datafiles >>)
        ELSE Returned(<< target_files, n_datafiles >>)

\* listing is what glob.glob(target_files) returns on the current file system
configure_data_inputs(obj, listing) ==
    LET target_files == obj["dataset_structure"].train_data \o obj["dataset_path"]
        n_datafiles == Len(listing)
    IN  IF ~(n_datafiles > 0) THEN Raised("AssertionError", 154)
        ELSE IF Contains(Str_single_CPU, obj["compute_type"])
        THEN Returned(<< Split(target_files, Str_star)[1], n_datafiles >>)
        ELSE IF Contains(Str_single_GPU, obj["compute_type"])
        THEN Returned(<< listing, n_datafiles >>)
        ELSE Returned(<< target_files, n_datafiles >>)

PatternOf(obj) == obj["dataset_structure"].train_data \o obj["dataset_path"]

----------------------------------------------------------------------------
(* File systems and dataset paths given to configure_data_inputs *)

ParquetNames == << <<"a",".","p","a","r","q","u","e","t">>,
                   <<"b",".","p","a","r","q","u","e","t">>,
                   <<"c",".","p","a","r","q","u","e","t">>,
                   <<"d",".","p","a","r","q","u","e","t">>,
                   <<"e",".","p","a","r","q","u","e","t">> >>

InTrainDir(name) == default_directory_structure.train_data \o name

\* the first k parquet files of the training directory
ParquetFiles(k) == { InTrainDir(ParquetNames[i]) : i \in 1 .. Min(k, Len(ParquetNames)) }

OtherFiles == { InTrainDir(<<"a",".","c","s","v">>),
                InTrainDir(<<".","h",".","p","a","r","q","u","e","t">>),
                InTrainDir(<<"s","/","z",".","p","a","r","q","u","e","t">>) }

DataFileSystems ==
    { p \cup o : p \in { ParquetFiles(k) : k \in 0 .. MaxDataFiles }, o \in SUBSET OtherFiles }

DatasetPaths == { default_dataset_path,
                  <<"*">>,
                  <<"a",".","*">>,
                  <<"*","/","*",".","p","a","r","q","u","e","t">>,
                  <<"a",".","p","a","r","q","u","e","t">>,
                  <<"a","*","r","*","t">>,
                  <<"q","*">> }

----------------------------------------------------------------------------
(* SpecData: configure_data_inputs applied to a file system *)

DataInit ==
    /\ environ = NoEnviron /\ hw = NoHw /\ ctor = NoCtor /\ dask = NoDask
    /\ fs \in DataFileSystems
    /\ \E c \in ComputeTypes, d \in DatasetPaths :
          self = [compute_type |-> c, dataset_path |-> d,
                  dataset_structure |-> default_directory_structure]
    /\ pc = "start"
    /\ last = NoLast

CallConfigureDataInputs ==
    /\ pc = "start"
    /\ \E listing \in Glob(fs, PatternOf(self)) :
          last' = [op |-> "configure_data_inputs", out |-> configure_data_inputs(self, listing)]
    /\ pc' = "done"
    /\ UNCHANGED << environ, fs, hw, ctor, self, dask >>

DataNext == CallConfigureDataInputs

SpecData == DataInit /\ [][DataNext]_vars

----------------------------------------------------------------------------
(* parse_hyper_parameter_inputs *)

default_max_depth    == 5
default_n_estimators == 10

\* argparse: input_args is the list of (option, value) pairs of the command
\* line; the last occurrence of an option wins, an option that was not added
\* to the parser goes to unknown_args.  Float values are in hundredths.
RECURSIVE ArgValue(_, _, _)
ArgValue(input_args, option, default) ==
    IF input_args = << >> THEN default
    ELSE LET l == input_args[Len(input_args)]
         IN  IF l[1] = option THEN l[2]
             ELSE ArgValue(SubSeq(input_args, 1, Len(input_args) - 1), option, default)

\* xgboost_model_params that sets nthreads in every CPU mode
xgboost_model_params_cpu(obj, input_args, cpu_count) ==
    LET base == [max_depth       |-> ArgValue(input_args, "--max_depth", default_max_depth),
                 num_boost_round |-> ArgValue(input_args, "--num_boost_round", default_n_estimators),
                 learning_rate   |-> ArgValue(input_args, "--learning_rate", 30),
                 gamma           |-> ArgValue(input_args, "--gamma", 0),
                 lambda          |-> ArgValue(input_args, "--lambda_l2", 20),
                 random_state    |-> 0,
                 verbosity       |-> 0,
                 seed            |-> ArgValue(input_args, "--seed", 0),
                 objective       |-> "binary:logistic"]
        threads == IF Contains(Str_CPU, obj["compute_type"])
                   THEN SetAttr(base, "nthreads", cpu_count)
                   ELSE base
    IN  IF Contains(Str_GPU, obj["compute_type"])
        THEN SetAttr(threads, "tree_method", "gpu_hist")
        ELSE SetAttr(threads, "tree_method", "hist")

xgboost_model_params(obj, input_args, cpu_count) ==
    LET base == [max_depth       |-> ArgValue(input_args, "--max_depth", default_max_depth),
                 num_boost_round |-> ArgValue(input_args, "--num_boost_round", default_n_estimators),
                 learning_rate   |-> ArgValue(input_args, "--learning_rate", 30),
                 gamma           |-> ArgValue(input_args, "--gamma", 0),
                 lambda          |-> ArgValue(input_args, "--lambda_l2", 20),
                 random_state    |-> 0,
                 verbosity       |-> 0,
                 seed            |-> ArgValue(input_args, "--seed", 0),
                 objective       |-> "binary:logistic"]
        threads == IF Contains(Str_single_CPU, obj["compute_type"])
                   THEN SetAttr(base, "nthreads", cpu_count)
                   ELSE base
    IN  IF Contains(Str_GPU, obj["compute_type"])
        THEN SetAttr(threads, "tree_method", "gpu_hist")
        ELSE SetAttr(threads, "tree_method", "hist")

randomforest_model_params(input_args) ==
    [max_depth    |-> ArgValue(input_args, "--max_depth", default_max_depth),
     n_estimators |-> ArgValue(input_args, "--n_estimators", default_n_estimators),
     max_features |-> ArgValue(input_args, "--max_features", 25),
     seed         |-> ArgValue(input_args, "--seed", 0)]

parse_hyper_parameter_inputs(obj, input_args, cpu_count) ==
    IF Contains(Str_XGBoost, obj["model_type"])
    THEN Returned(xgboost_model_params(obj, input_args, cpu_count))
    ELSE IF Contains(Str_RandomForest, obj["model_type"])
    THEN Returned(randomforest_model_params(input_args))
    ELSE Raised("Exception", 137)

----------------------------------------------------------------------------
(* Arguments given to parse_hyper_parameter_inputs *)

Options == { "--max_depth", "--num_boost_round", "--n_estimators", "--max_features",
             "--seed", "--learning_rate", "--job" }
OptionValues == { 3, 50 }
InputArgs == SeqsUpTo(Options \X OptionValues, MaxArgs)

Str_LightGBM == <<"L","i","g","h","t","G","B","M">>
Str_dask_XGBoost == <<"d","a","s","k","-","X","G","B","o","o","s","t">>
AnyModelTypes == ModelTypes \cup { Str_LightGBM, Str_dask_XGBoost }

Machines == { [gpus |-> 1, cpus |-> 2] }

----------------------------------------------------------------------------
(* SpecHP: parse_hyper_parameter_inputs applied to command lines *)

HPInit ==
    /\ environ = NoEnviron /\ fs = NoFiles /\ dask = NoDask
    /\ hw \in Machines
    /\ \E a \in InputArgs : ctor = [input_args |-> a]
    /\ \E m \in AnyModelTypes, c \in ComputeTypes :
          self = [model_type |-> m, compute_type |-> c]
    /\ pc = "start"
    /\ last = NoLast

CallParseHyperParameterInputs ==
    /\ pc = "start"
    /\ last' = [op |-> "parse_hyper_parameter_inputs",
                out |-> parse_hyper_parameter_inputs(self, ctor["input_args"], hw.cpus)]
    /\ pc' = "done"
    /\ UNCHANGED << environ, fs, hw, ctor, self, dask >>

HPNext == CallParseHyperParameterInputs

SpecHP == HPInit /\ [][HPNext]_vars

----------------------------------------------------------------------------
(* The dask cluster: cluster_initialize *)

\* LocalCUDACluster(n_workers) / LocalCluster(n_workers, threads_per_worker = 1)
NewCluster(rt, kind, n_workers) == [id |-> rt.next, kind |-> kind, n_workers |-> n_workers]
\* Client(cluster)
NewClient(rt, cluster) == [id |-> rt.next, cluster |-> cluster.id]

Started(rt, cluster, client) ==
    [clusters |-> rt.clusters \cup { cluster.id },
     clients  |-> rt.clients \cup { client.id },
     next     |-> rt.next + 1]

\* WorkerCount without the XGBoost limit on the number of data files
WorkerCount_nodata(obj, devices, worker_limit) ==
    IF worker_limit # None THEN Min(worker_limit[1], devices) ELSE devices

\* WorkerCount with the limit on the number of data files for every model type
WorkerCount_alldata(obj, devices, worker_limit) ==
    LET n1 == Min(obj["n_datafiles"], devices)
    IN  IF worker_limit # None THEN Min(worker_limit[1], n1) ELSE n1

\* the worker count of one branch of cluster_initialize
WorkerCount(obj, devices, worker_limit) ==
    LET n0 == devices
        n1 == IF Contains(Str_XGBoost, obj["model_type"])
              THEN Min(obj["n_datafiles"], n0) ELSE n0
    IN  IF worker_limit # None THEN Min(worker_limit[1], n1) ELSE n1

\* one branch of cluster_initialize: the object, the runtime and the locals
\* cluster and client after it
InitializeBranch(st, kind, devices, worker_limit) ==
    LET n == WorkerCount(st.self, devices, worker_limit)
        cluster == NewCluster(st.dask, kind, n)
        client == NewClient(st.dask, cluster)
    IN  [self    |-> SetAttr(st.self, "n_workers", n),
         dask    |-> Started(st.dask, cluster, client),
         cluster |-> Some(cluster),
         client  |-> Some(client)]

\* cluster_initialize: the object and the runtime after the call, and the
\* returned pair (cluster, client)
cluster_initialize(obj, rt, machine, worker_limit) ==
    LET s0 == [self |-> obj, dask |-> rt, cluster |-> None, client |-> None]
        s1 == IF Contains(Str_multi_GPU, obj["compute_type"])
              THEN InitializeBranch(s0, "LocalCUDACluster", machine.gpus, worker_limit)
              ELSE s0
        s2 == IF Contains(Str_multi_CPU, obj["compute_type"])
              THEN InitializeBranch(s1, "LocalCluster", machine.cpus, worker_limit)
              ELSE s1
    IN  s2

----------------------------------------------------------------------------
(* RapidsCloudML.__init__ *)

\* InitClusterAndScores that tests for 'GPU' where the code tests for 'multi'
InitClusterAndScores_gpu(obj, rt, machine, worker_limit) ==
    LET ci == IF Contains(Str_GPU, obj["compute_type"])
              THEN cluster_initialize(obj, rt, machine, worker_limit)
              ELSE [self |-> obj, dask |-> rt]
        withCluster == IF Contains(Str_GPU, obj["compute_type"])
                       THEN SetAttr(SetAttr(ci.self, "cluster", ci.cluster), "client", ci.client)
                       ELSE ci.self
    IN  [self |-> SetAttr(SetAttr(withCluster, "cv_fold_scores", << >>), "best_score", -1),
         dask |-> ci.dask,
         out  |-> Returned(None)]

\* the statements of __init__ after configure_data_inputs returned
InitClusterAndScores(obj, rt, machine, worker_limit) ==
    LET ci == IF Contains(Str_multi, obj["compute_type"])
              THEN cluster_initialize(obj, rt, machine, worker_limit)
              ELSE [self |-> obj, dask |-> rt]
        withCluster == IF Contains(Str_multi, obj["compute_type"])
                       THEN SetAttr(SetAttr(ci.self, "cluster", ci.cluster), "client", ci.client)
                       ELSE ci.self
    IN  [self |-> SetAttr(SetAttr(withCluster, "cv_fold_scores", << >>), "best_score", -1),
         dask |-> ci.dask,
         out  |-> Returned(None)]

\* __init__: the outcome, the object (empty when __init__ raised) and the runtime
RapidsCloudML_init(env, files, machine, args, rt) ==
    LET job == parse_job_name(env)
    IN  IF job.status = "raised" THEN { [self |-> NoSelf, dask |-> rt, out |-> job] }
        ELSE
        LET o1 == [model_type |-> job.ret[1], compute_type |-> job.ret[2], cv_folds |-> job.ret[3]]
            hp == parse_hyper_parameter_inputs(o1, args["input_args"], machine.cpus)
        IN  IF hp.status = "raised" THEN { [self |-> NoSelf, dask |-> rt, out |-> hp] }
            ELSE
            LET o2 == SetAttr(SetAttr(SetAttr(o1, "model_params", hp.ret),
                                      "dataset_path", args["dataset_path"]),
                              "dataset_structure", args["dataset_structure"])
            IN  { LET di == configure_data_inputs(o2, listing)
                  IN  IF di.status = "raised" THEN [self |-> NoSelf, dask |-> rt, out |-> di]
                      ELSE InitClusterAndScores(
                               SetAttr(SetAttr(o2, "target_files", di.ret[1]), "n_datafiles", di.ret[2]),
                               rt, machine, args["worker_limit"])
                  : listing \in Glob(files, PatternOf(o2)) }

----------------------------------------------------------------------------
(* train_model and persist_training_inputs *)

TrainingInputs == { [X_train |-> [persisted |-> p], y_train |-> [persisted |-> p]] : p \in BOOLEAN }

\* persist_training_inputs without the multi-CPU branch
persist_training_inputs_gpuonly(obj, data) ==
    IF Contains(Str_multi_GPU, obj["compute_type"])
    THEN [data  |-> [X_train |-> [persisted |-> TRUE], y_train |-> [persisted |-> TRUE]],
          calls |-> << "persist_across_workers", "wait" >>]
    ELSE [data |-> data, calls |-> << >>]

persist_training_inputs(obj, data) ==
    IF Contains(Str_multi_CPU, obj["compute_type"])
    THEN [data  |-> [X_train |-> [persisted |-> TRUE], y_train |-> [persisted |-> TRUE]],
          calls |-> << "X_train.persist", "y_train.persist" >>]
    ELSE IF Contains(Str_multi_GPU, obj["compute_type"])
    THEN [data  |-> [X_train |-> [persisted |-> TRUE], y_train |-> [persisted |-> TRUE]],
          calls |-> << "persist_across_workers", "wait" >>]
    ELSE [data |-> data, calls |-> << >>]

\* the classifier the RandomForest branch constructs, None when no branch binds rf_model
RandomForestClassifier(obj) ==
    IF Contains(Str_GPU, obj["compute_type"])
    THEN IF Contains(Str_multi, obj["compute_type"])
         THEN Some("cuml.dask.ensemble.RandomForestClassifier")
         ELSE IF Contains(Str_single, obj["compute_type"])
         THEN Some("cuml.ensemble.RandomForestClassifier")
         ELSE None
    ELSE IF Contains(Str_CPU, obj["compute_type"])
    THEN Some("sklearn.ensemble.RandomForestClassifier")
    ELSE None

\* train_model: the outcome and the library calls it made, in order
train_model(obj, data) ==
    IF Contains(Str_XGBoost, obj["model_type"])
    THEN IF Contains(Str_single, obj["compute_type"])
         THEN [out   |-> Returned([trainer |-> "xgboost.train", client |-> None, fit_on |-> data]),
               calls |-> << "xgboost.DMatrix", "xgboost.train" >>]
         ELSE IF Contains(Str_multi, obj["compute_type"])
         THEN [out   |-> Returned([trainer |-> "xgboost.dask.train",
                                   client |-> Some(obj["client"][1].id), fit_on |-> data]),
               calls |-> << "xgboost.dask.DaskDMatrix", "xgboost.dask.train" >>]
         ELSE [out |-> Raised("UnboundLocalError", 265), calls |-> << >>]
    ELSE IF Contains(Str_RandomForest, obj["model_type"])
    THEN LET rf_model == RandomForestClassifier(obj)
             persisted == persist_training_inputs(obj, data)
         IN  IF rf_model = None
             THEN [out |-> Raised("UnboundLocalError", 262), calls |-> << >>]
             ELSE [out   |-> Returned([trainer |-> rf_model[1], client |-> None,
                                       fit_on |-> persisted.data]),
                   calls |-> << rf_model[1], "persist_training_inputs" >>
                             \o persisted.calls \o << "fit" >>]
    ELSE [out |-> Raised("UnboundLocalError", 265), calls |-> << >>]

----------------------------------------------------------------------------
(* predict and emit_final_score *)

\* the function that computes test_accuracy, None when no branch binds it
Scorer(obj) ==
    IF Contains(Str_XGBoost, obj["model_type"])
    THEN IF ~(Contains(Str_single, obj["compute_type"]) \/ Contains(Str_multi, obj["compute_type"]))
         THEN None
         ELSE IF Contains(Str_GPU, obj["compute_type"]) THEN Some("cuml_accuracy_score")
         ELSE IF Contains(Str_CPU, obj["compute_type"]) THEN Some("sklearn_accuracy_score")
         ELSE None
    ELSE IF Contains(Str_RandomForest, obj["model_type"])
    THEN IF Contains(Str_single, obj["compute_type"]) THEN Some("trained_model.score")
         ELSE IF Contains(Str_multi, obj["compute_type"])
         THEN IF Contains(Str_GPU, obj["compute_type"]) THEN Some("cuml_accuracy_score")
              ELSE IF Contains(Str_CPU, obj["compute_type"]) THEN Some("sklearn_accuracy_score")
              ELSE None
         ELSE None
    ELSE None

\* predict that assigns the score list where the code extends it
predict_assign(obj, accuracy) ==
    LET scorer == Scorer(obj)
    IN  IF scorer = None
        THEN [self |-> obj, out |-> Raised("UnboundLocalError", 323)]
        ELSE [self |-> [obj EXCEPT !["cv_fold_scores"] = << accuracy >>],
              out  |-> Returned(accuracy)]

\* predict: accuracy is the value the scorer computes on the test split
predict(obj, accuracy) ==
    LET scorer == Scorer(obj)
    IN  IF scorer = None
        THEN [self |-> obj, out |-> Raised("UnboundLocalError", 323)]
        ELSE [self |-> [obj EXCEPT !["cv_fold_scores"] = @ \o << accuracy >>],
              out  |-> Returned(accuracy)]

RECURSIVE Sum(_)
Sum(scores) == IF scores = << >> THEN 0 ELSE Head(scores) + Sum(Tail(scores))

\* emit_final_score: the outcome and the final score it prints, as the exact
\* fraction num / den
emit_final_score(obj) ==
    IF Len(obj["cv_fold_scores"]) = 0
    THEN [out |-> Raised("ZeroDivisionError", 335)]
    ELSE [out     |-> Returned(None),
          printed |-> [num |-> Sum(obj["cv_fold_scores"]), den |-> Len(obj["cv_fold_scores"])]]

----------------------------------------------------------------------------
(* Environments of a job *)

MainJobNames ==
    { Join(<< <<"a","i","r">>, c, m, <<"3","c","v">> >>, Str_dash) :
          c \in { Str_mgpu, Str_mcpu, Str_scpu, Str_sgpu }, m \in { Str_rf, Str_xgb } }
    \cup { <<"a","i","r","-","s","c","p","u","-","r","f","-","1","c","v">> }

MainEnvirons == { NoEnviron } \cup { EnvWith(j) : j \in MainJobNames }

WorkerLimits == { None } \cup { Some(n) : n \in 1 .. MaxWorkerLimit }

\* the accuracies a scorer may compute: none or all of the test rows right
Accuracies == { 0, 1 }

----------------------------------------------------------------------------
(* Spec: the life of one RapidsCloudML object *)

Init ==
    /\ environ \in MainEnvirons
    /\ fs \in { ParquetFiles(k) : k \in 0 .. MaxJobFiles }
    /\ hw \in [gpus : 1 .. MaxDevices, cpus : 1 .. MaxDevices]
    /\ \E w \in WorkerLimits :
          ctor = [input_args |-> << >>, dataset_path |-> default_dataset_path,
                  dataset_structure |-> default_directory_structure, worker_limit |-> w]
    /\ self = NoSelf
    /\ dask = NoDask
    /\ pc = "start"
    /\ last = NoLast

Construct ==
    /\ pc = "start"
    /\ \E r \in RapidsCloudML_init(environ, fs, hw, ctor, dask) :
          /\ self' = r.self
          /\ dask' = r.dask
          /\ last' = [op |-> "__init__", out |-> r.out]
          /\ pc' = IF r.out.status = "returned" THEN "ready" ELSE "failed"
    /\ UNCHANGED << environ, fs, hw, ctor >>

\* cluster_reinitialize in a single mode: the body of the if is skipped
ReinitializeSingle ==
    /\ pc = "ready"
    /\ ~Contains(Str_multi, self["compute_type"])
    /\ last' = [op |-> "cluster_reinitialize", out |-> Returned(None)]
    /\ UNCHANGED << environ, fs, hw, ctor, self, dask, pc >>

\* cluster_reinitialize in a multi mode, first statement: self.client.close()
ReinitializeCloseClient ==
    /\ pc = "ready"
    /\ Contains(Str_multi, self["compute_type"])
    /\ dask.next <= MaxClusters
    /\ dask' = [dask EXCEPT !.clients = @ \ { self["client"][1].id }]
    /\ pc' = "reinitialize_close_cluster"
    /\ UNCHANGED << environ, fs, hw, ctor, self, last >>

\* the second statement left out: the old cluster stays open
ReinitializeCloseCluster_leak ==
    /\ pc = "reinitialize_close_cluster"
    /\ pc' = "reinitialize_initialize"
    /\ UNCHANGED << environ, fs, hw, ctor, self, dask, last >>

\* second statement: self.cluster.close()
ReinitializeCloseCluster ==
    /\ pc = "reinitialize_close_cluster"
    /\ dask' = [dask EXCEPT !.clusters = @ \ { self["cluster"][1].id }]
    /\ pc' = "reinitialize_initialize"
    /\ UNCHANGED << environ, fs, hw, ctor, self, last >>

\* the third statement, also starting the score list afresh as __init__ does
ReinitializeInitialize_reset ==
    /\ pc = "reinitialize_initialize"
    /\ LET ci == cluster_initialize(self, dask, hw, None)
       IN  /\ self' = SetAttr(SetAttr(SetAttr(ci.self, "cluster", ci.cluster), "client", ci.client),
                              "cv_fold_scores", << >>)
           /\ dask' = ci.dask
    /\ last' = [op |-> "cluster_reinitialize", out |-> Returned(None)]
    /\ pc' = "ready"
    /\ UNCHANGED << environ, fs, hw, ctor >>

\* third statement: self.cluster, self.client = self.cluster_initialize()
ReinitializeInitialize ==
    /\ pc = "reinitialize_initialize"
    /\ LET ci == cluster_initialize(self, dask, hw, None)
       IN  /\ self' = SetAttr(SetAttr(ci.self, "cluster", ci.cluster), "client", ci.client)
           /\ dask' = ci.dask
    /\ last' = [op |-> "cluster_reinitialize", out |-> Returned(None)]
    /\ pc' = "ready"
    /\ UNCHANGED << environ, fs, hw, ctor >>

TrainModel ==
    /\ pc = "ready"
    /\ \E data \in TrainingInputs :
          LET r == train_model(self, data)
          IN  last' = [op |-> "train_model", out |-> r.out, calls |-> r.calls, args |-> data]
    /\ UNCHANGED << environ, fs, hw, ctor, self, dask, pc >>

Predict ==
    /\ pc = "ready"
    /\ Len(self["cv_fold_scores"]) < MaxFolds
    /\ \E accuracy \in Accuracies :
          LET r == predict(self, accuracy)
          IN  /\ self' = r.self
              /\ last' = [op |-> "predict", out |-> r.out]
    /\ UNCHANGED << environ, fs, hw, ctor, dask, pc >>

EmitFinalScore ==
    /\ pc = "ready"
    /\ last' = [op |-> "emit_final_score"] @@ emit_final_score(self)
    /\ UNCHANGED << environ, fs, hw, ctor, self, dask, pc >>

Next ==
    \/ Construct
    \/ ReinitializeSingle
    \/ ReinitializeCloseClient
    \/ ReinitializeCloseCluster
    \/ ReinitializeInitialize
    \/ TrainModel
    \/ Predict
    \/ EmitFinalScore

Spec == Init /\ [][Next]_vars

----------------------------------------------------------------------------
(* Properties of parse_job_name *)

ComputeCodes == { << Str_mgpu, Str_multi_GPU >>, << Str_mcpu, Str_multi_CPU >>,
                  << Str_scpu, Str_single_CPU >>, << Str_sgpu, Str_single_GPU >> }
ModelCodes   == { << Str_rf, Str_RandomForest >>, << Str_xgb, Str_XGBoost >> }

\* field, in any letter case, contains the code of entry e and of no other entry
NamesOnly(e, table, field) ==
    /\ Contains(e[1], Lower(field))
    /\ \A o \in table \ {e} : ~Contains(o[1], Lower(field))

ParsedJobName == last.op = "parse_job_name" /\ HasTrainingEnv(environ)
                    /\ "job_name" \in DOMAIN environ["SM_TRAINING_ENV"]
JobFields == Split(environ["SM_TRAINING_ENV"]["job_name"], Str_dash)
FoldCount == ParseInt(Split(JobFields[4], Str_cv)[1])

\* C4: for a job name <prefix>-<compute>-<model>-<N>cv whose second field
\* names one compute code, whose third field names one model code and whose
\* fourth field is an integer N >= 1 followed by 'cv', parse_job_name returns
\* (model type of the code, compute type of the code, N); and every triple
\* parse_job_name returns has model_type in {RandomForest, XGBoost},
\* compute_type one of the four modes and cv_folds >= 1.
C4_JobNameDecoded ==
    /\ (last.op = "parse_job_name" /\ last.out.status = "returned") =>
          /\ last.out.ret[1] \in { Str_RandomForest, Str_XGBoost }
          /\ last.out.ret[2] \in { Str_single_GPU, Str_multi_GPU, Str_single_CPU, Str_multi_CPU }
          /\ last.out.ret[3] >= 1
    /\ (ParsedJobName /\ Len(JobFields) >= 4) =>
          \A c \in ComputeCodes, m \in ModelCodes :
             ( /\ NamesOnly(c, ComputeCodes, JobFields[2])
               /\ NamesOnly(m, ModelCodes, JobFields[3])
               /\ Contains(Str_cv, JobFields[4])
               /\ FoldCount # None
               /\ FoldCount[1] >= 1 )
             => last.out = Returned(<< m[2], c[2], FoldCount[1] >>)

\* a name with an upper-case compute field and a two-digit fold count was decoded
C4_Witness ==
    /\ ParsedJobName
    /\ environ["SM_TRAINING_ENV"]["job_name"] =
          <<"a","i","r","-","M","G","P","U","-","r","f","-","1","3","c","v">>
    /\ last.out = Returned(<< Str_RandomForest, Str_multi_GPU, 13 >>)

\* C5: without SM_TRAINING_ENV parse_job_name returns the defaults
\* (XGBoost, single-GPU, 1), which pass its three assertions.
C5_DefaultsReturned ==
    (last.op = "parse_job_name" /\ ~HasTrainingEnv(environ)) =>
        last.out = Returned(<< Str_XGBoost, Str_single_GPU, 1 >>)

----------------------------------------------------------------------------
(* Properties of configure_data_inputs *)

IsPrefixBeforeFirstStar(p, s) ==
    /\ Len(p) <= Len(s)
    /\ p = SubSeq(s, 1, Len(p))
    /\ \A i \in 1 .. Len(p) : p[i] # "*"
    /\ (Len(p) < Len(s) => s[Len(p) + 1] = "*")

----------------------------------------------------------------------------
(* Properties of parse_hyper_parameter_inputs *)

\* C8: for a model type naming XGBoost the mapping has tree_method 'gpu_hist'
\* exactly in the single-GPU and multi-GPU modes and 'hist' otherwise, and has
\* the key nthreads exactly in single-CPU mode; for a model type naming
\* RandomForest its keys are exactly max_depth, n_estimators, max_features and
\* seed; for a model type naming neither the call raises.
C8_ParamsByFamilyAndMode ==
    last.op = "parse_hyper_parameter_inputs" =>
        LET mode == self["compute_type"]
            family == self["model_type"]
        IN  IF Contains(Str_XGBoost, family)
            THEN /\ last.out.status = "returned"
                 /\ last.out.ret["tree_method"] =
                       (IF mode \in { Str_single_GPU, Str_multi_GPU } THEN "gpu_hist" ELSE "hist")
                 /\ ("nthreads" \in DOMAIN last.out.ret) <=> (mode = Str_single_CPU)
            ELSE IF Contains(Str_RandomForest, family)
            THEN /\ last.out.status = "returned"
                 /\ DOMAIN last.out.ret = { "max_depth", "n_estimators", "max_features", "seed" }
            ELSE last.out.status = "raised"

\* an XGBoost job in multi-CPU mode got 'hist' and no nthreads
C8_Witness ==
    /\ last.op = "parse_hyper_parameter_inputs"
    /\ self["model_type"] = Str_XGBoost
    /\ self["compute_type"] = Str_multi_CPU
    /\ last.out.status = "returned"
    /\ last.out.ret["tree_method"] = "hist"
    /\ "nthreads" \notin DOMAIN last.out.ret

----------------------------------------------------------------------------
(* Properties of the cluster life cycle *)

Constructed == pc \notin { "start", "failed" }
IsMulti == self["compute_type"] \in { Str_multi_CPU, Str_multi_GPU }
MatchedAtConstruction ==
    Cardinality({ e \in Entries(fs) :
                    GlobMatch(default_directory_structure.train_data \o ctor["dataset_path"], e, TRUE) })
MinOf(S) == CHOOSE x \in S : \A y \in S : x <= y

\* C1: for an XGBoost job in a multi mode, after construction and after any
\* number of cluster_reinitialize calls, n_workers and the size of the
\* object's cluster are at most the number of data files matched at
\* construction.
C1_WorkersWithinDataFiles ==
    (Constructed /\ self["model_type"] = Str_XGBoost /\ IsMulti) =>
        /\ self["n_datafiles"] = MatchedAtConstruction
        /\ self["n_workers"] <= MatchedAtConstruction
        /\ self["cluster"][1].n_workers <= MatchedAtConstruction

\* after a reinitialize, an XGBoost multi-GPU job on two GPUs with one data
\* file and no worker_limit runs one worker
C1_Witness ==
    /\ pc = "ready"
    /\ last.op = "cluster_reinitialize"
    /\ self["model_type"] = Str_XGBoost
    /\ self["compute_type"] = Str_multi_GPU
    /\ hw.gpus = 2
    /\ ctor["worker_limit"] = None
    /\ self["n_datafiles"] = 1
    /\ self["n_workers"] = 1

HasCluster ==
    /\ HasAttr(self, "cluster") /\ self["cluster"] # None
    /\ HasAttr(self, "client") /\ self["client"] # None

\* C2: a constructed object has a cluster and a client if and only if its
\* compute type is multi-CPU or multi-GPU; in the single modes no cluster or
\* client was ever created, and a cluster_reinitialize call changes neither
\* the object nor the dask runtime.
C2_ClusterIffMulti ==
    /\ [](Constructed =>
            /\ HasCluster <=> IsMulti
            /\ ~IsMulti => /\ ~HasAttr(self, "cluster") /\ ~HasAttr(self, "client")
                           /\ dask = NoDask)
    /\ [][(pc = "ready" /\ ~IsMulti /\ last'.op = "cluster_reinitialize")
             => (self' = self /\ dask' = dask /\ pc' = pc)]_vars

\* cluster_reinitialize was called on a single-GPU object
C2_Witness ==
    /\ pc = "ready"
    /\ self["compute_type"] = Str_single_GPU
    /\ last.op = "cluster_reinitialize"
    /\ ~HasAttr(self, "cluster")
    /\ dask.clusters = { }

\* the worker_limit argument of the cluster_initialize call made from pc
LimitGiven == IF pc = "start" THEN ctor["worker_limit"] ELSE None

\* C3: every cluster_initialize(worker_limit) call in a multi mode creates a
\* cluster of exactly n_workers workers, where n_workers is the minimum of the
\* hardware count (GPUs in multi-GPU mode, CPUs in multi-CPU mode), of
\* n_datafiles when and only when the model type is XGBoost, and of
\* worker_limit when it is not None.
C3_ClusterSize ==
    [][ dask'.next # dask.next =>
          LET devices == IF self'["compute_type"] = Str_multi_GPU THEN hw.gpus ELSE hw.cpus
              files   == IF self'["model_type"] = Str_XGBoost THEN { self'["n_datafiles"] } ELSE { }
              limit   == IF LimitGiven # None THEN { LimitGiven[1] } ELSE { }
              n       == MinOf({ devices } \cup files \cup limit)
          IN  /\ self'["compute_type"] \in { Str_multi_CPU, Str_multi_GPU }
              /\ self'["n_workers"] = n
              /\ self'["cluster"][1].n_workers = n
              /\ self'["cluster"][1].kind =
                    (IF self'["compute_type"] = Str_multi_GPU
                     THEN "LocalCUDACluster" ELSE "LocalCluster")
              /\ dask'.clusters = dask.clusters \cup { self'["cluster"][1].id } ]_vars

\* a RandomForest multi-CPU job with one data file runs two workers
C3_Witness ==
    /\ pc = "ready"
    /\ self["model_type"] = Str_RandomForest
    /\ self["compute_type"] = Str_multi_CPU
    /\ self["n_datafiles"] = 1
    /\ self["n_workers"] = 2
    /\ self["cluster"][1].n_workers = 2

\* C10: in a multi mode cluster_reinitialize closes the client while its
\* cluster is still open, then the cluster, and creates the new cluster and
\* client only when none is open; at most one cluster and one client are open
\* in every state, the object's client is attached to the object's cluster,
\* and between calls both are the open ones.
C10_CloseBeforeCreate ==
    /\ [](/\ Cardinality(dask.clusters) <= 1
          /\ Cardinality(dask.clients) <= 1
          /\ (Constructed /\ IsMulti) =>
                /\ self["client"][1].cluster = self["cluster"][1].id
                /\ pc = "ready" => /\ dask.clusters = { self["cluster"][1].id }
                                   /\ dask.clients = { self["client"][1].id })
    /\ [][ /\ dask'.clients # dask.clients /\ dask'.next = dask.next =>
                /\ dask.clients = { self["client"][1].id } /\ dask'.clients = { }
                /\ dask.clusters = { self["cluster"][1].id } /\ dask'.clusters = dask.clusters
           /\ dask'.clusters # dask.clusters /\ dask'.next = dask.next =>
                /\ dask.clients = { }
                /\ dask.clusters = { self["cluster"][1].id } /\ dask'.clusters = { }
           /\ dask'.next # dask.next =>
                /\ dask.clusters = { } /\ dask.clients = { }
                /\ self'["client"][1].cluster = self'["cluster"][1].id
                /\ pc # "start" => self'["cluster"][1].id # self["cluster"][1].id ]_vars

\* a multi-CPU object holds its second cluster, the only one open
C10_Witness ==
    /\ pc = "ready"
    /\ last.op = "cluster_reinitialize"
    /\ self["compute_type"] = Str_multi_CPU
    /\ self["cluster"][1].id = 2
    /\ dask.clusters = { 2 }
    /\ dask.clients = { 2 }

----------------------------------------------------------------------------
(* Properties of training and scoring *)

RECURSIVE Total(_)
Total(s) == IF Len(s) = 0 THEN 0 ELSE Total(SubSeq(s, 1, Len(s) - 1)) + s[Len(s)]

\* C6: every predict call returns (in each of the eight combinations of model
\* and compute type) and appends the value it returns, and nothing else, to
\* cv_fold_scores; no other call changes cv_fold_scores; emit_final_score on
\* k >= 1 scores prints their sum divided by k and changes nothing.
C6_ScoresAccumulate ==
    /\ [](last.op = "predict" => last.out.status = "returned")
    /\ [][ (pc = "ready" /\ pc' = "ready") =>
             /\ last'.op = "predict" =>
                   self' = [self EXCEPT !["cv_fold_scores"] = Append(@, last'.out.ret)]
             /\ last'.op # "predict" =>
                   self'["cv_fold_scores"] = self["cv_fold_scores"]
             /\ last'.op = "emit_final_score" =>
                   /\ self' = self
                   /\ Len(self["cv_fold_scores"]) >= 1 =>
                         /\ last'.out.status = "returned"
                         /\ last'.printed.num = Total(self["cv_fold_scores"])
                         /\ last'.printed.den = Len(self["cv_fold_scores"]) ]_vars
    /\ [][ pc # "ready" /\ pc # "start" =>
              self'["cv_fold_scores"] = self["cv_fold_scores"] ]_vars

\* after predict returned 0 and then 1, emit_final_score printed 1/2
C6_Witness ==
    /\ last.op = "emit_final_score"
    /\ self["cv_fold_scores"] = << 0, 1 >>
    /\ last.printed = [num |-> 1, den |-> 2]

TrainerCalls == { "xgboost.train", "xgboost.dask.train", "fit" }
IndexOf(calls, name) == CHOOSE i \in DOMAIN calls : calls[i] = name
Persisted == [X_train |-> [persisted |-> TRUE], y_train |-> [persisted |-> TRUE]]

\* C9: train_model returns a trained model in each of the eight combinations
\* and makes exactly one training call: xgboost.train in the single modes and
\* xgboost.dask.train with the object's client in the multi modes for XGBoost;
\* fit of the cuml dask classifier (multi-GPU), the cuml classifier
\* (single-GPU) or the sklearn classifier (CPU modes) for RandomForest.  For
\* RandomForest persist_training_inputs is called before fit, fit gets
\* persisted inputs in the multi modes and the inputs as given in the single
\* modes; for XGBoost persist_training_inputs is not called.
C9_TrainDispatch ==
    last.op = "train_model" =>
        LET mode == self["compute_type"]
            calls == last.calls
            called(name) == \E i \in DOMAIN calls : calls[i] = name
        IN  /\ last.out.status = "returned"
            /\ Cardinality({ i \in DOMAIN calls : calls[i] \in TrainerCalls }) = 1
            /\ self["model_type"] = Str_XGBoost =>
                  /\ ~called("persist_training_inputs")
                  /\ mode \in { Str_single_CPU, Str_single_GPU } =>
                        /\ last.out.ret.trainer = "xgboost.train" /\ called("xgboost.train")
                  /\ mode \in { Str_multi_CPU, Str_multi_GPU } =>
                        /\ last.out.ret.trainer = "xgboost.dask.train" /\ called("xgboost.dask.train")
                        /\ last.out.ret.client = << self["client"][1].id >>
            /\ self["model_type"] = Str_RandomForest =>
                  /\ last.out.ret.trainer =
                        (IF mode = Str_multi_GPU THEN "cuml.dask.ensemble.RandomForestClassifier"
                         ELSE IF mode = Str_single_GPU THEN "cuml.ensemble.RandomForestClassifier"
                         ELSE "sklearn.ensemble.RandomForestClassifier")
                  /\ called("persist_training_inputs") /\ called("fit")
                  /\ IndexOf(calls, "persist_training_inputs") < IndexOf(calls, "fit")
                  /\ mode \in { Str_multi_CPU, Str_multi_GPU } =>
                        /\ last.out.ret.fit_on = Persisted
                        /\ IndexOf(calls, "persist_training_inputs") + 1 < IndexOf(calls, "fit")
                  /\ mode \in { Str_single_CPU, Str_single_GPU } =>
                        /\ last.out.ret.fit_on = last.args
                        /\ IndexOf(calls, "persist_training_inputs") + 1 = IndexOf(calls, "fit")

\* a RandomForest multi-CPU job was fitted on inputs persisted by train_model
C9_Witness ==
    /\ last.op = "train_model"
    /\ self["model_type"] = Str_RandomForest
    /\ self["compute_type"] = Str_multi_CPU
    /\ last.args.X_train.persisted = FALSE
    /\ last.out.status = "returned"
    /\ last.out.ret.fit_on.X_train.persisted = TRUE

----------------------------------------------------------------------------
(* The constructor's worker_limit *)

\* C11: in a multi mode with a worker_limit given to the constructor,
\* n_workers and the size of the object's cluster are at most worker_limit
\* after construction and after any number of cluster_reinitialize calls.
C11_WorkerLimitKept ==
    (Constructed /\ IsMulti /\ ctor["worker_limit"] # None) =>
        /\ self["n_workers"] <= ctor["worker_limit"][1]
        /\ self["cluster"][1].n_workers <= ctor["worker_limit"][1]

----------------------------------------------------------------------------
(* parse_job_name on a name that fails to parse part-way *)

\* the parse of the job name stops at a missing field or at the fold count
FailsPartWay == Len(JobFields) < 4 \/ FoldCount = None

\* C12: when the parse of the job name fails part-way (a field is missing, or
\* the part of the fourth field before 'cv' is not an integer), parse_job_name
\* swallows the error and returns the fields decoded before the failure, with
\* the others at their defaults: compute_type decoded when there is a second
\* field, model_type decoded when there is a third, cv_folds 1.
C12_PartialParseKept ==
    (ParsedJobName /\ FailsPartWay) =>
        last.out = Returned(<<
            IF Len(JobFields) >= 3
            THEN DecodeModel(Lower(JobFields[3]), default_model_type)
            ELSE default_model_type,
            IF Len(JobFields) >= 2
            THEN DecodeCompute(Lower(JobFields[2]), default_compute_type)
            ELSE default_compute_type,
            default_cv_folds >>)

\* the part of C12 the code keeps: the same, for a name whose second field
\* names a compute code
C12_PartialParseKeptWhenComputeDecoded ==
    (ParsedJobName /\ FailsPartWay /\ Len(JobFields) >= 2
        /\ \E c \in ComputeCodes : Contains(c[1], Lower(JobFields[2]))) =>
        C12_PartialParseKept

----------------------------------------------------------------------------
(* What cluster_reinitialize leaves alone *)

\* a step of a cluster_reinitialize call
ReinitializeStep ==
    /\ pc # "start"
    /\ \/ pc # "ready"
       \/ pc' # "ready"
       \/ last'.op = "cluster_reinitialize"

ClusterAttributes == { "cluster", "client", "n_workers" }

\* C13: no statement of cluster_reinitialize adds or removes an attribute of
\* the object or changes one other than cluster, client and n_workers:
\* cv_fold_scores, model_params, target_files, n_datafiles, model_type,
\* compute_type and cv_folds stay as they were; and emit_final_score averages
\* all of cv_fold_scores, the scores recorded before a reinitialize included.
C13_ReinitializeFrame ==
    /\ [](Constructed =>
             { "cv_fold_scores", "model_params", "target_files", "n_datafiles",
               "model_type", "compute_type", "cv_folds" } \subseteq DOMAIN self)
    /\ [][ ReinitializeStep =>
             /\ DOMAIN self' = DOMAIN self
             /\ \A a \in (DOMAIN self) \ ClusterAttributes : self'[a] = self[a] ]_vars
    /\ [][ (pc = "ready" /\ last'.op = "emit_final_score"
               /\ Len(self["cv_fold_scores"]) >= 1) =>
             /\ last'.printed.num = Total(self["cv_fold_scores"])
             /\ last'.printed.den = Len(self["cv_fold_scores"]) ]_vars

\* the two scores recorded before the reinitialize of a multi-GPU object are
\* still there when its second cluster is up
C13_Witness ==
    /\ pc = "ready"
    /\ last.op = "cluster_reinitialize"
    /\ self["compute_type"] = Str_multi_GPU
    /\ self["cluster"][1].id = 2
    /\ self["cv_fold_scores"] = << 1, 0 >>

=============================================================================
